---- MODULE Spec2Model ----
(***************************************************************************)
(* state_ptr: a pointer and a small state packed into one machine word.    *)
(*                                                                         *)
(* Two implementations live in the repository:                             *)
(*   include/putl/state_ptr.hpp  one word m_ptr_and_state, masks           *)
(*   state_ptr.hpp               two bit-fields m_ptr / m_state            *)
(* Spec models the first, SpecBits the second.  Pointers are modelled by   *)
(* their address as an unsigned integer of WordBits bits; nullptr is 0.    *)
(***************************************************************************)
EXTENDS Integers, Sequences, FiniteSets, TLC

VARIABLES
    cfg,     \* the template instantiation: implementation, alignof(T), req_state_bits
    objs,    \* the data members of the two state_ptr objects p and q
    given,   \* per object: constructed?, the pointer it was built from, the last state stored, made by copying?
    last,    \* the most recent call: operation, operands, state argument
    diag,    \* the diagnostic of the failed assertion, NoDiag while none failed
    stack,   \* call stack of the comparison operator being evaluated
    phase,   \* "idle", "running", "returned", "stack_overflow", "hang"
    result   \* value returned by the most recent comparison (read when phase = "returned")

vars == <<cfg, objs, given, last, diag, stack, phase, result>>

(***************************************************************************)
(* Bounds of the model.                                                    *)
(***************************************************************************)
\* Width of uintptr_t in the model (8 * sizeof(pointer_type) in the source).
WordBits == 3
\* Number of frames the call stack holds before it overflows.
StackLimit == 3

\* alignof(T) of the element types instantiated.
Alignments == {1, 2, 4}
ObjNames == {"p", "q"}
\* The copies the program makes, <<target, source>>: q{p} and q = p.
Copies == {<<"q", "p">>}

(***************************************************************************)
(* Unsigned arithmetic on words.                                           *)
(***************************************************************************)
RECURSIVE Pow2(_)
Pow2(n) == IF n <= 0 THEN 1 ELSE 2 * Pow2(n - 1)

WordMod == Pow2(WordBits)
Words == 0 .. (WordMod - 1)

Min(a, b) == IF a <= b THEN a ELSE b

RECURSIVE BitAnd(_, _)
BitAnd(x, y) ==
    IF x = 0 \/ y = 0 THEN 0
    ELSE (x % 2) * (y % 2) + 2 * BitAnd(x \div 2, y \div 2)

RECURSIVE BitOr(_, _)
BitOr(x, y) ==
    IF x = 0 THEN y
    ELSE IF y = 0 THEN x
    ELSE (IF x % 2 = 1 \/ y % 2 = 1 THEN 1 ELSE 0) + 2 * BitOr(x \div 2, y \div 2)

BitNot(x) == (WordMod - 1) - x
ShiftRight(x, n) == x \div Pow2(n)
ShiftLeft(x, n) == (x * Pow2(n)) % WordMod

\* static_cast<internal_type>(state) and reinterpret_cast<uintptr_t>(ptr)
to_internal(v) == v % WordMod

nullptr == 0

(***************************************************************************)
(* detail::log2                                                            *)
(***************************************************************************)
\* Variant: the loop runs once more, while number >= 1.
log2_continue_once_more(number) == number >= 1

\* The loop condition and one pass of the loop body.
log2_continue(number) == number > 1
log2_pass(number, acc) == [number |-> number \div 2, acc |-> acc + 1]

RECURSIVE log2_loop(_, _)
log2_loop(number, acc) ==
    IF log2_continue(number)
    THEN log2_loop(log2_pass(number, acc).number, log2_pass(number, acc).acc)
    ELSE acc

log2(number) == log2_loop(number, 0)

(***************************************************************************)
(* include/putl/state_ptr.hpp: the bit layout                              *)
(***************************************************************************)
state_bits_max == log2(cfg.align)
state_bits == Min(cfg.req, state_bits_max)
ptr_bits == WordBits - state_bits
state_max == Pow2(state_bits) - 1
\* Variant: the mask is shifted one bit too little.
state_mask_one_bit_wide == IF state_bits = 0 THEN 0 ELSE ShiftRight(BitNot(0), ptr_bits - 1)

state_mask == IF state_bits = 0 THEN 0 ELSE ShiftRight(BitNot(0), ptr_bits)
ptr_mask == BitNot(state_mask)

\* static_assert(req_state_bits <= state_bits_max, ...): TRUE when it passes.
static_assert_req_state_bits == cfg.req <= state_bits_max
InsufficientAlignment ==
    "The alignment of T is not sufficient to store the requested amount of state bits."

(***************************************************************************)
(* include/putl/state_ptr.hpp: member functions, on the packed word w      *)
(***************************************************************************)
NoDiag == ""
OutOfBounds == "state value is out of bounds for this state_ptr"

\* Variant: the bound compared against is one too large.
is_valid_state_off_by_one(state) == to_internal(state) <= state_max + 1

is_valid_state(state) == to_internal(state) <= state_max

\* TRUE when the assertion passes; the caller aborts with OutOfBounds otherwise.
assert_valid_state(state) == is_valid_state(state)

\* Variant: the pointer bits are read without masking the state out.
get_ptr_bits_unmasked(w) == w

get_ptr_bits(w) == BitAnd(w, ptr_mask)

\* Variant: the state is extracted with the pointer mask.
get_state_bits_wrong_mask(w) == BitAnd(w, ptr_mask)

get_state_bits(w) == BitAnd(w, state_mask)
get_state(w) == get_state_bits(w)
get_ptr(w) == get_ptr_bits(w)

\* Variant: the new state is or-ed in without clearing the old one.
set_state_keeps_old_bits(w, new_state) ==
    IF assert_valid_state(new_state)
    THEN [ok |-> TRUE, w |-> BitOr(w, to_internal(new_state))]
    ELSE [ok |-> FALSE, w |-> w]

\* set_state: the word afterwards, or the failed assertion with the word as it was.
set_state(w, new_state) ==
    IF assert_valid_state(new_state)
    THEN [ok |-> TRUE, w |-> BitOr(get_ptr_bits(w), to_internal(new_state))]
    ELSE [ok |-> FALSE, w |-> w]

\* Variant: the constructor or-s the state into the address as it was passed.
construct_without_masking(init_word, state) ==
    IF assert_valid_state(state)
    THEN [ok |-> TRUE, w |-> BitOr(init_word, to_internal(state))]
    ELSE [ok |-> FALSE, w |-> init_word]

\* Both constructors: member initialiser, assert_valid_state, set_state.
construct(init_word, state) ==
    IF assert_valid_state(state)
    THEN set_state(init_word, state)
    ELSE [ok |-> FALSE, w |-> init_word]

\* Variant: a copy that carries the pointer over and drops the state.
copy_of_ptr_only(src) == [m_ptr_and_state |-> get_ptr_bits(src.m_ptr_and_state)]

\* The defaulted copy constructor and copy assignment copy the word.
copy_of(src) == [m_ptr_and_state |-> src.m_ptr_and_state]

(***************************************************************************)
(* include/putl/state_ptr.hpp: comparison operators that compute a value   *)
(***************************************************************************)
\* Variant: equality that compares the pointer fields alone.
operator_eq_ptr_only(rhs, lhs) ==
    get_ptr_bits(lhs.m_ptr_and_state) = get_ptr_bits(rhs.m_ptr_and_state)

operator_eq(rhs, lhs) == lhs.m_ptr_and_state = rhs.m_ptr_and_state
operator_eq_nullptr(rhs) == get_ptr(rhs.m_ptr_and_state) = nullptr
operator_ne_nullptr(rhs) == get_ptr(rhs.m_ptr_and_state) # nullptr

\* Variant: the null test looks at the whole word, state included.
operator_bool_whole_word(self) == self.m_ptr_and_state # 0

operator_bool(self) == get_ptr(self.m_ptr_and_state) # nullptr

\* Operators whose body is one call of another operator:
\* callee, whether the arguments are passed in swapped order, whether the
\* returned value is negated.
PackedDelegates ==
    [ne         |-> [callee |-> "eq",         swap |-> TRUE,  neg |-> TRUE],
     eq_null_sp |-> [callee |-> "eq_null_sp", swap |-> FALSE, neg |-> FALSE],
     ne_null_sp |-> [callee |-> "eq_null_sp", swap |-> FALSE, neg |-> FALSE]]

PackedLeafOps == {"eq", "eq_sp_null", "ne_sp_null", "bool"}

(***************************************************************************)
(* state_ptr.hpp (bit-field implementation)                                *)
(***************************************************************************)
bf_state_bits == log2(cfg.align)
bf_ptr_bits == WordBits - bf_state_bits
threshold == Pow2(bf_state_bits) - 1

CheckInvariantFailed == "m_state <= threshold"
SetStateAssertFailed == "new_state <= threshold"

\* Storing a value into an unsigned bit-field of the given width keeps its low bits.
bitfield_store(v, width) == v % Pow2(width)

check_invariant(obj) == obj.m_state <= threshold

bf_construct(ptr_word, state) ==
    LET obj == [m_ptr   |-> bitfield_store(ShiftRight(ptr_word, bf_state_bits), bf_ptr_bits),
                m_state |-> bitfield_store(state, bf_state_bits)]
    IN  [ok |-> check_invariant(obj), obj |-> obj]

bf_set_state(obj, new_state) ==
    IF ~(new_state <= threshold)
    THEN [ok |-> FALSE, diag |-> SetStateAssertFailed, obj |-> obj]
    ELSE LET o2 == [obj EXCEPT !.m_state = bitfield_store(new_state, bf_state_bits)]
         IN  [ok |-> check_invariant(o2), diag |-> CheckInvariantFailed, obj |-> o2]

bf_get_state(obj) == obj.m_state
bf_get_ptr(obj) == ShiftLeft(obj.m_ptr, bf_state_bits)

bf_operator_eq(rhs, lhs) == lhs.m_ptr = rhs.m_ptr
bf_operator_lt(rhs, lhs) == ~(lhs.m_ptr < rhs.m_ptr)

BitsDelegates ==
    [ne |-> [callee |-> "eq", swap |-> TRUE, neg |-> TRUE],
     le |-> [callee |-> "gt", swap |-> TRUE, neg |-> TRUE],
     ge |-> [callee |-> "lt", swap |-> TRUE, neg |-> TRUE],
     gt |-> [callee |-> "le", swap |-> TRUE, neg |-> TRUE]]

BitsLeafOps == {"eq", "lt"}

(***************************************************************************)
(* Evaluation of a comparison: frames are [op, a1, a2], a1 and a2 the      *)
(* first and second argument (an object name, "null" or "-").              *)
(***************************************************************************)
Delegates == IF cfg.impl = "packed" THEN PackedDelegates ELSE BitsDelegates
LeafOps == IF cfg.impl = "packed" THEN PackedLeafOps ELSE BitsLeafOps

Frame(op, a1, a2) == [op |-> op, a1 |-> a1, a2 |-> a2]

LeafValue(f) ==
    IF cfg.impl = "packed"
    THEN CASE f.op = "eq"         -> operator_eq(objs[f.a1], objs[f.a2])
           [] f.op = "eq_sp_null" -> operator_eq_nullptr(objs[f.a1])
           [] f.op = "ne_sp_null" -> operator_ne_nullptr(objs[f.a1])
           [] f.op = "bool"       -> operator_bool(objs[f.a1])
    ELSE CASE f.op = "eq" -> bf_operator_eq(objs[f.a1], objs[f.a2])
           [] f.op = "lt" -> bf_operator_lt(objs[f.a1], objs[f.a2])

CalleeFrame(f) ==
    LET d == Delegates[f.op]
    IN  IF d.swap THEN Frame(d.callee, f.a2, f.a1) ELSE Frame(d.callee, f.a1, f.a2)

\* The value v of the callee handed back through the waiting callers.
RECURSIVE Unwind(_, _)
Unwind(v, callers) ==
    IF callers = <<>> THEN v
    ELSE LET top == callers[Len(callers)]
             r == IF Delegates[top.op].neg THEN ~v ELSE v
         IN  Unwind(r, SubSeq(callers, 1, Len(callers) - 1))

Top == stack[Len(stack)]
OnStack(f) == \E i \in 1 .. Len(stack) : stack[i] = f

Quiet == diag = NoDiag /\ phase \in {"idle", "returned"}
Built == {o \in ObjNames : given[o].built}

NoCall == [op |-> "none", x |-> "-", y |-> "-", s |-> 0, was |-> 0]
\* was: the state the target held before a set_state or a copy assignment.
CallOf(op, x, y, s) == [op |-> op, x |-> x, y |-> y, s |-> s, was |-> 0]
Unbuilt == [built |-> FALSE, ptr |-> 0, state |-> 0, copied |-> FALSE]

\* State arguments offered to constructors and set_state: the valid ones and two beyond.
StateArgs == {s \in Words : s <= Pow2(Min(cfg.req, log2(cfg.align))) + 1}

\* Pointer arguments: nullptr, the lowest and the highest address aligned for T,
\* and the byte after nullptr and after the highest one (misaligned when alignof(T) > 1).
PtrArgs ==
    {nullptr, 1, cfg.align, WordMod - cfg.align, WordMod - cfg.align + 1} \cap Words

Settled == /\ stack' = <<>>
           /\ phase' = "idle"
           /\ result' = FALSE

(***************************************************************************)
(* Spec: include/putl/state_ptr.hpp                                        *)
(***************************************************************************)
Init ==
    /\ cfg \in {[impl |-> "packed", align |-> a, req |-> r] :
                    a \in Alignments, r \in 0 .. log2(CHOOSE m \in Alignments : \A n \in Alignments : n <= m)}
    /\ cfg.req <= log2(cfg.align)
    /\ objs = [o \in ObjNames |-> [m_ptr_and_state |-> 0]]
    /\ given = [o \in ObjNames |-> Unbuilt]
    /\ last = NoCall
    /\ diag = NoDiag
    /\ stack = <<>>
    /\ phase = "idle"
    /\ result = FALSE

Constructed(o, init_word, ptr, s) ==
    LET r == construct(init_word, s)
    IN  /\ objs' = [objs EXCEPT ![o] = [m_ptr_and_state |-> r.w]]
        /\ given' = IF r.ok THEN [given EXCEPT ![o] = [built |-> TRUE, ptr |-> ptr, state |-> s, copied |-> FALSE]]
                    ELSE given
        /\ diag' = IF r.ok THEN NoDiag ELSE OutOfBounds

CtorNull(o, s) ==
    /\ Quiet /\ ~given[o].built
    /\ last' = CallOf("ctor_null", o, "null", s)
    /\ Constructed(o, 0, nullptr, s)
    /\ Settled
    /\ UNCHANGED cfg

CtorPtr(o, ptr, s) ==
    /\ Quiet /\ ~given[o].built
    /\ last' = CallOf("ctor_ptr", o, "-", s)
    /\ Constructed(o, to_internal(ptr), ptr, s)
    /\ Settled
    /\ UNCHANGED cfg

CopyCtor(o, src) ==
    /\ Quiet /\ ~given[o].built /\ given[src].built
    /\ last' = CallOf("copy_ctor", o, src, 0)
    /\ objs' = [objs EXCEPT ![o] = copy_of(objs[src])]
    /\ given' = [given EXCEPT ![o] = [given[src] EXCEPT !.copied = TRUE]]
    /\ Settled
    /\ UNCHANGED <<cfg, diag>>

CopyAssign(o, src) ==
    /\ Quiet /\ given[o].built /\ given[src].built
    /\ last' = [CallOf("copy_assign", o, src, 0) EXCEPT !.was = given[o].state]
    /\ objs' = [objs EXCEPT ![o] = copy_of(objs[src])]
    /\ given' = [given EXCEPT ![o] = [given[src] EXCEPT !.copied = TRUE]]
    /\ Settled
    /\ UNCHANGED <<cfg, diag>>

SetState(o, s) ==
    /\ Quiet /\ given[o].built
    /\ last' = [CallOf("set_state", o, "-", s) EXCEPT !.was = given[o].state]
    /\ LET r == set_state(objs[o].m_ptr_and_state, s)
       IN  /\ objs' = [objs EXCEPT ![o] = [m_ptr_and_state |-> r.w]]
           /\ given' = IF r.ok THEN [given EXCEPT ![o].state = s] ELSE given
           /\ diag' = IF r.ok THEN NoDiag ELSE OutOfBounds
    /\ Settled
    /\ UNCHANGED cfg

\* The comparisons a program can write on the objects constructed so far.
PackedCalls ==
    {<<op, x, y>> : op \in {"eq", "ne"}, x \in Built, y \in Built}
    \cup {<<op, x, "null">> : op \in {"eq_sp_null", "ne_sp_null"}, x \in Built}
    \cup {<<op, "null", y>> : op \in {"eq_null_sp", "ne_null_sp"}, y \in Built}
    \cup {<<"bool", x, "-">> : x \in Built}

BitsCalls ==
    {<<op, x, y>> : op \in {"eq", "ne", "lt", "le", "ge", "gt"}, x \in Built, y \in Built}

Call(c) ==
    /\ Quiet
    /\ last' = CallOf(c[1], c[2], c[3], 0)
    /\ stack' = <<Frame(c[1], c[2], c[3])>>
    /\ phase' = "running"
    /\ result' = FALSE
    /\ UNCHANGED <<cfg, objs, given, diag>>

\* The running operator computes its value; it returns through its callers.
ExecLeaf ==
    /\ phase = "running"
    /\ Top.op \in LeafOps
    /\ result' = Unwind(LeafValue(Top), SubSeq(stack, 1, Len(stack) - 1))
    /\ stack' = <<>>
    /\ phase' = "returned"
    /\ UNCHANGED <<cfg, objs, given, last, diag>>

\* The running operator calls the operator it delegates to.
ExecCall ==
    /\ phase = "running"
    /\ Top.op \notin LeafOps
    /\ IF Len(stack) < StackLimit
       THEN /\ stack' = Append(stack, CalleeFrame(Top))
            /\ phase' = phase
       ELSE /\ stack' = stack
            /\ phase' = "stack_overflow"
    /\ UNCHANGED <<cfg, objs, given, last, diag, result>>

\* A call that repeats a frame already on the stack recurses for ever without
\* side effects, which is undefined behaviour: besides growing the stack, a
\* build may spin in place (tail call) or return any value (the optimiser
\* assumes forward progress).
ExecCallUndefined ==
    /\ phase = "running"
    /\ Top.op \notin LeafOps
    /\ OnStack(CalleeFrame(Top))
    /\ \/ /\ phase' = "hang"
          /\ UNCHANGED <<stack, result>>
       \/ /\ phase' = "returned"
          /\ stack' = <<>>
          /\ result' \in BOOLEAN
    /\ UNCHANGED <<cfg, objs, given, last, diag>>

Next ==
    \/ \E o \in ObjNames, s \in StateArgs : CtorNull(o, s)
    \/ \E o \in ObjNames, ptr \in PtrArgs, s \in StateArgs : CtorPtr(o, ptr, s)
    \/ \E c \in Copies : CopyCtor(c[1], c[2])
    \/ \E c \in Copies : CopyAssign(c[1], c[2])
    \/ \E o \in ObjNames, s \in StateArgs : SetState(o, s)
    \/ \E c \in PackedCalls : Call(c)
    \/ ExecLeaf
    \/ ExecCall
    \/ ExecCallUndefined

Spec == Init /\ [][Next]_vars

(***************************************************************************)
(* SpecBits: state_ptr.hpp, the bit-field implementation.  A named         *)
(* bit-field of width 0 is ill-formed, so alignof(T) is at least 2.        *)
(***************************************************************************)
InitBits ==
    /\ cfg \in {[impl |-> "bits", align |-> a, req |-> log2(a)] : a \in Alignments \ {1}}
    /\ objs = [o \in ObjNames |-> [m_ptr |-> 0, m_state |-> 0]]
    /\ given = [o \in ObjNames |-> Unbuilt]
    /\ last = NoCall
    /\ diag = NoDiag
    /\ stack = <<>>
    /\ phase = "idle"
    /\ result = FALSE

BfConstructed(o, ptr_word, ptr, s) ==
    LET r == bf_construct(ptr_word, s)
    IN  /\ objs' = [objs EXCEPT ![o] = r.obj]
        /\ given' = IF r.ok THEN [given EXCEPT ![o] = [built |-> TRUE, ptr |-> ptr, state |-> s, copied |-> FALSE]]
                    ELSE given
        /\ diag' = IF r.ok THEN NoDiag ELSE CheckInvariantFailed

BfCtorNull(o, s) ==
    /\ Quiet /\ ~given[o].built
    /\ last' = CallOf("ctor_null", o, "null", s)
    /\ BfConstructed(o, 0, nullptr, s)
    /\ Settled
    /\ UNCHANGED cfg

BfCtorPtr(o, ptr, s) ==
    /\ Quiet /\ ~given[o].built
    /\ last' = CallOf("ctor_ptr", o, "-", s)
    /\ BfConstructed(o, to_internal(ptr), ptr, s)
    /\ Settled
    /\ UNCHANGED cfg

BfCopyCtor(o, src) ==
    /\ Quiet /\ ~given[o].built /\ given[src].built
    /\ last' = CallOf("copy_ctor", o, src, 0)
    /\ objs' = [objs EXCEPT ![o] = objs[src]]
    /\ given' = [given EXCEPT ![o] = [given[src] EXCEPT !.copied = TRUE]]
    /\ Settled
    /\ UNCHANGED <<cfg, diag>>

BfSetState(o, s) ==
    /\ Quiet /\ given[o].built
    /\ last' = [CallOf("set_state", o, "-", s) EXCEPT !.was = given[o].state]
    /\ LET r == bf_set_state(objs[o], s)
       IN  /\ objs' = [objs EXCEPT ![o] = r.obj]
           /\ given' = IF r.ok THEN [given EXCEPT ![o].state = s] ELSE given
           /\ diag' = IF r.ok THEN NoDiag ELSE r.diag
    /\ Settled
    /\ UNCHANGED cfg

NextBits ==
    \/ \E o \in ObjNames, s \in StateArgs : BfCtorNull(o, s)
    \/ \E o \in ObjNames, ptr \in PtrArgs, s \in StateArgs : BfCtorPtr(o, ptr, s)
    \/ \E c \in Copies : BfCopyCtor(c[1], c[2])
    \/ \E o \in ObjNames, s \in StateArgs : BfSetState(o, s)
    \/ \E c \in BitsCalls : Call(c)
    \/ ExecLeaf
    \/ ExecCall
    \/ ExecCallUndefined

SpecBits == InitBits /\ [][NextBits]_vars

(***************************************************************************)
(* Properties of include/putl/state_ptr.hpp, checked under Spec            *)
(***************************************************************************)
Word(o) == objs[o].m_ptr_and_state
\* The low state_bits bits of the address are zero.
Aligned(ptr) == ptr % Pow2(state_bits) = 0

\* C1: a state_ptr constructed from (p, s), p with its low state_bits bits zero
\* (null or not) and 0 <= s <= state_max, returns exactly p from get_ptr() and
\* exactly s from get_state().
C1_RoundTrip ==
    (last.op \in {"ctor_null", "ctor_ptr"} /\ last.s <= state_max) =>
        /\ diag = NoDiag
        /\ given[last.x].built
        /\ Aligned(given[last.x].ptr) =>
              /\ get_ptr(Word(last.x)) = given[last.x].ptr
              /\ get_state(Word(last.x)) = last.s

C1_Witness ==
    /\ last.op = "ctor_ptr"
    /\ diag = NoDiag
    /\ state_bits = 2
    /\ last.s = state_max
    /\ given[last.x].ptr # nullptr
    /\ Aligned(given[last.x].ptr)
    /\ get_ptr(Word(last.x)) = given[last.x].ptr

\* C2: after any sequence of valid set_state calls on a state_ptr built from an
\* aligned pointer p, get_ptr() is still p, get_state() is the value of the most
\* recent set_state, and the word holds nothing but p and that value.
C2_SetStateFrame ==
    /\ \A o \in Built :
          Aligned(given[o].ptr) =>
              /\ get_ptr(Word(o)) = given[o].ptr
              /\ get_state(Word(o)) = given[o].state
              /\ Word(o) = given[o].ptr + given[o].state
    /\ (last.op = "set_state" /\ last.s <= state_max) =>
          /\ diag = NoDiag
          /\ given[last.x].state = last.s
          /\ get_state(Word(last.x)) = last.s

C2_Witness ==
    /\ last.op = "set_state"
    /\ diag = NoDiag
    /\ state_bits = 2
    /\ last.was = state_max
    /\ last.s = 1
    /\ given[last.x].ptr # nullptr
    /\ Aligned(given[last.x].ptr)
    /\ get_state(Word(last.x)) = 1

\* C3: in every state reached through construction, copy construction, copy
\* assignment and set_state, 0 <= get_state() <= state_max for every object.
C3_StateInRange ==
    \A o \in ObjNames : get_state(Word(o)) >= 0 /\ get_state(Word(o)) <= state_max

C3_Witness ==
    /\ last.op = "copy_assign"
    /\ state_max > 0
    /\ last.was # state_max
    /\ given[last.x].ptr # nullptr
    /\ get_state(Word(last.x)) = state_max

\* C4: a constructor or set_state called with s > state_max aborts with the
\* out-of-bounds diagnostic, no object that existed before the call has its word
\* changed, and no object shows a state above state_max.
C4_Abort ==
    (/\ diag = NoDiag
     /\ last'.op \in {"ctor_null", "ctor_ptr", "set_state"}
     /\ last'.s > state_max) =>
        /\ diag' = OutOfBounds
        /\ given' = given
        /\ \A o \in ObjNames :
              /\ given[o].built => objs'[o] = objs[o]
              /\ get_state(objs'[o].m_ptr_and_state) <= state_max

C4_BoundsEnforced == [][C4_Abort]_vars

C4_Witness ==
    /\ diag = OutOfBounds
    /\ last.op = "set_state"
    /\ state_bits >= 1
    /\ last.s = state_max + 1
    /\ Word(last.x) = given[last.x].ptr + given[last.x].state
    /\ given[last.x].state = last.was

\* C5: for a and b built from aligned pointers and valid states, a == b is true
\* iff the pointers are equal and the states are equal, a != b is its negation,
\* and a == a is true.
C5_EqualityConjunctive ==
    (phase = "returned" /\ last.op \in {"eq", "ne"}) =>
        LET a == last.x
            b == last.y
            same == /\ get_ptr(Word(a)) = get_ptr(Word(b))
                    /\ get_state(Word(a)) = get_state(Word(b))
            same_given == /\ given[a].ptr = given[b].ptr
                          /\ given[a].state = given[b].state
        IN  (Aligned(given[a].ptr) /\ Aligned(given[b].ptr)) =>
                /\ same = same_given
                /\ result = (IF last.op = "eq" THEN same ELSE ~same)
                /\ (a = b /\ last.op = "eq") => result

C5_Witness ==
    /\ phase = "returned"
    /\ last.op = "eq"
    /\ last.x # last.y
    /\ given[last.x].ptr = given[last.y].ptr
    /\ given[last.x].ptr # nullptr
    /\ Aligned(given[last.x].ptr)
    /\ given[last.x].state # given[last.y].state
    /\ result = FALSE

\* C6: a state_ptr constructed from (nullptr, s), s valid, has get_ptr() ==
\* nullptr, converts to false and equals nullptr, whatever valid states are set
\* afterwards; operator bool is true iff get_ptr() != nullptr.
C6_NullIdentity ==
    /\ (last.op = "ctor_null" /\ last.s <= state_max) =>
          get_ptr(Word(last.x)) = nullptr
    /\ \A o \in Built : given[o].ptr = nullptr => get_ptr(Word(o)) = nullptr
    /\ (phase = "returned" /\ last.op = "bool") =>
          /\ result = (get_ptr(Word(last.x)) # nullptr)
          /\ given[last.x].ptr = nullptr => result = FALSE
    /\ (phase = "returned" /\ last.op = "eq_sp_null") =>
          /\ result = (get_ptr(Word(last.x)) = nullptr)
          /\ given[last.x].ptr = nullptr => result = TRUE

C6_Witness ==
    /\ phase = "returned"
    /\ last.op = "bool"
    /\ given[last.x].ptr = nullptr
    /\ state_max > 0
    /\ given[last.x].state = state_max
    /\ result = FALSE

\* C7: nullptr == p terminates with the value of p == nullptr (true iff
\* get_ptr() is null), and nullptr != p terminates with the negation of it.
C7_NullComparisonEitherOrder ==
    (last.op \in {"eq_null_sp", "ne_null_sp"}) =>
        /\ phase \notin {"stack_overflow", "hang"}
        /\ phase = "returned" =>
              result = (IF last.op = "eq_null_sp"
                        THEN get_ptr(Word(last.y)) = nullptr
                        ELSE get_ptr(Word(last.y)) # nullptr)

\* C10: after q{p} or q = p, q == p with equal pointer and equal state; a later
\* set_state on one of the two leaves the word of the other as it was.
C10_CopyEqual ==
    (last.op \in {"copy_ctor", "copy_assign"}) =>
        /\ operator_eq(objs[last.x], objs[last.y])
        /\ get_ptr(Word(last.x)) = get_ptr(Word(last.y))
        /\ get_state(Word(last.x)) = get_state(Word(last.y))
        /\ get_state(Word(last.x)) = given[last.y].state

C10_SetStateLocal ==
    (last'.op = "set_state") =>
        \A o \in ObjNames \ {last'.x} : objs'[o] = objs[o]

C10_CopiesIndependent == [] C10_CopyEqual /\ [][C10_SetStateLocal]_vars

C10_Witness ==
    /\ last.op = "set_state"
    /\ diag = NoDiag
    /\ last.x = "q"
    /\ given["q"].copied
    /\ given["q"].ptr = given["p"].ptr
    /\ given["p"].ptr # nullptr
    /\ last.was = given["p"].state
    /\ given["q"].state # given["p"].state
    /\ get_state(Word("p")) = given["p"].state

(***************************************************************************)
(* Properties of the relational operators, checked under SpecBits          *)
(***************************************************************************)
\* a < b as the code computes it.
Less(a, b) == bf_operator_lt(objs[a], objs[b])

\* C8: operator< is a strict weak ordering driven by the pointer field: a < a is
\* false, a < b implies not (b < a), a < b and b < c imply a < c, and a < b
\* holds iff a's pointer field is strictly less than b's.
C8_LessIsStrictWeakOrder ==
    (phase = "returned" /\ last.op = "lt") =>
        /\ result = (objs[last.x].m_ptr < objs[last.y].m_ptr)
        /\ last.x = last.y => ~result
        /\ result => ~Less(last.y, last.x)
        /\ \A c \in Built : (result /\ Less(last.y, c)) => Less(last.x, c)

\* C9: a <= b, a > b and a >= b each finish, with a > b iff b < a,
\* a <= b iff not (b < a), a >= b iff not (a < b).
C9_DerivedRelationalAgree ==
    (last.op \in {"le", "gt", "ge"}) =>
        /\ phase \notin {"stack_overflow", "hang"}
        /\ phase = "returned" =>
              result = (CASE last.op = "gt" -> Less(last.y, last.x)
                          [] last.op = "le" -> ~Less(last.y, last.x)
                          [] last.op = "ge" -> ~Less(last.x, last.y))

(***************************************************************************)
(* SpecStatic: what is computed at compile time.  A state_ptr<T, S, req>   *)
(* is instantiated for an alignment and a requested bit count, accepted or *)
(* not; detail::log2 runs its loop on a number, one pass per step, its     *)
(* locals number and acc in the one frame of the stack.                    *)
(***************************************************************************)
\* Largest argument detail::log2 is called with.
MaxNumber == 70

NoInstance == [impl |-> "none", align |-> 1, req |-> 0]
\* alignof(T) is a power of two below the size of the address space.
StaticAlignments == {Pow2(k) : k \in 0 .. (WordBits - 1)}
RequestedBits == 0 .. WordBits

InitStatic ==
    /\ cfg = NoInstance
    /\ objs = [o \in ObjNames |-> [m_ptr_and_state |-> 0]]
    /\ given = [o \in ObjNames |-> Unbuilt]
    /\ last = NoCall
    /\ diag = NoDiag
    /\ stack = <<>>
    /\ phase = "idle"
    /\ result = FALSE

Instantiate(a, r) ==
    /\ phase # "running"
    /\ cfg' = [impl |-> "packed", align |-> a, req |-> r]
    /\ last' = CallOf("instantiate", "-", "-", 0)
    /\ diag' = IF static_assert_req_state_bits' THEN NoDiag ELSE InsufficientAlignment
    /\ Settled
    /\ UNCHANGED <<objs, given>>

Log2Call(n) ==
    /\ phase # "running"
    /\ last' = CallOf("log2", "-", "-", n)
    /\ stack' = <<[number |-> n, acc |-> 0]>>
    /\ phase' = "running"
    /\ result' = FALSE
    /\ UNCHANGED <<cfg, objs, given, diag>>

Log2Pass ==
    /\ phase = "running"
    /\ log2_continue(Top.number)
    /\ stack' = <<log2_pass(Top.number, Top.acc)>>
    /\ UNCHANGED <<cfg, objs, given, last, diag, phase, result>>

Log2Return ==
    /\ phase = "running"
    /\ ~log2_continue(Top.number)
    /\ result' = Top.acc
    /\ stack' = <<>>
    /\ phase' = "returned"
    /\ UNCHANGED <<cfg, objs, given, last, diag>>

NextStatic ==
    \/ \E a \in StaticAlignments, r \in RequestedBits : Instantiate(a, r)
    \/ \E n \in 0 .. MaxNumber : Log2Call(n)
    \/ Log2Pass
    \/ Log2Return

\* The loop is straight-line code of one thread: a pass that can run, runs.
SpecStatic ==
    InitStatic /\ [][NextStatic]_vars /\ WF_vars(Log2Pass) /\ WF_vars(Log2Return)

(***************************************************************************)
(* Properties of the compile-time part, checked under SpecStatic           *)
(***************************************************************************)
\* floor(log2(n)) for n >= 1, by its defining inequality.
FloorLog2(n) == CHOOSE k \in 0 .. n : 2^k <= n /\ n < 2^(k + 1)

\* C11: for every alignment and every requested bit count that is accepted
\* (req_state_bits <= floor(log2(alignof(T))), 0 included), state_bits +
\* ptr_bits is the pointer width, state_max = 2^state_bits - 1, state_mask =
\* state_max, state_mask and ptr_mask are disjoint and cover the word; a larger
\* requested bit count is rejected.
C11_BitLayout ==
    (cfg.impl = "packed") =>
        IF cfg.req <= FloorLog2(cfg.align)
        THEN /\ diag = NoDiag
             /\ state_bits = cfg.req
             /\ state_bits + ptr_bits = WordBits
             /\ state_max = 2^state_bits - 1
             /\ state_mask = state_max
             /\ BitAnd(state_mask, ptr_mask) = 0
             /\ BitOr(state_mask, ptr_mask) = 2^WordBits - 1
             /\ state_mask + ptr_mask = 2^WordBits - 1
        ELSE diag = InsufficientAlignment

C11_Witness ==
    /\ cfg.impl = "packed"
    /\ cfg.align = 4
    /\ cfg.req = 1
    /\ diag = NoDiag
    /\ state_mask = 1
    /\ ptr_mask = 2^WordBits - 2

\* C12: detail::log2 terminates on every n >= 0 of the range and returns the
\* floored base-2 logarithm: 0 for 0 and for 1, and for n >= 1 the k with
\* 2^k <= n < 2^(k+1).
C12_Log2Value ==
    (phase = "returned" /\ last.op = "log2") =>
        /\ last.s <= 1 => result = 0
        /\ last.s >= 1 => (2^result <= last.s /\ last.s < 2^(result + 1))
        /\ result = log2(last.s)

C12_Log2Runs ==
    (phase = "running" /\ last.op = "log2") =>
        /\ Top.acc <= last.s
        /\ Top.number <= last.s

C12_Log2Floor ==
    /\ [] C12_Log2Value
    /\ [] C12_Log2Runs
    /\ (phase = "running" /\ last.op = "log2") ~> (phase = "returned" /\ last.op = "log2")

C12_Witness ==
    /\ phase = "returned"
    /\ last.op = "log2"
    /\ last.s = 35
    /\ result = 5

(***************************************************************************)
(* Properties of the bit-field implementation, checked under SpecBits      *)
(***************************************************************************)
\* C13: in the bit-field implementation operator== is true iff pointer and
\* state are both equal, so two state_ptr built from the same pointer with
\* different states compare unequal; operator!= is the negation.
C13_BitsEqualityDistinguishesStates ==
    (phase = "returned" /\ last.op \in {"eq", "ne"}) =>
        LET same == /\ bf_get_ptr(objs[last.x]) = bf_get_ptr(objs[last.y])
                    /\ bf_get_state(objs[last.x]) = bf_get_state(objs[last.y])
        IN  result = (IF last.op = "eq" THEN same ELSE ~same)

\* C14: in the bit-field implementation, with assertions enabled, both
\* constructors and set_state fail their assertion for every state value
\* s > threshold.
C14_BitsBoundsEnforced ==
    (last.op \in {"ctor_null", "ctor_ptr", "set_state"} /\ last.s > threshold) =>
        diag # NoDiag

(***************************************************************************)
(* Misaligned addresses in include/putl/state_ptr.hpp, checked under Spec  *)
(***************************************************************************)
\* C15: for every pointer value p, misaligned ones included, and every valid
\* state, get_state() is exactly the state last given and get_ptr() is p with
\* its low state_bits bits cleared, after construction and after any sequence
\* of valid set_state calls.
C15_LowAddressBitsDropped ==
    \A o \in Built :
        /\ get_state(Word(o)) = given[o].state
        /\ get_ptr(Word(o)) = given[o].ptr - (given[o].ptr % 2^state_bits)

C15_Witness ==
    /\ last.op = "set_state"
    /\ diag = NoDiag
    /\ state_bits = 2
    /\ given[last.x].ptr % 2^state_bits = 1
    /\ given[last.x].ptr > 1
    /\ ~given[last.x].copied
    /\ last.was = 0
    /\ last.s = 2
    /\ get_state(Word(last.x)) = 2

====
